---- MODULE Spec2Model ----
(***************************************************************************)
(* State-machine model of the Egnyte FUSE client: the inode table          *)
(* (src/src/fs/inode_table.rs), the kernel callbacks of EgnyteFuse         *)
(* (src/src/fs/fuse_ops.rs) and the API client (src/src/fs/api_client.rs). *)
(*                                                                         *)
(* Spec      the driver: one kernel callback at a time (the Filesystem     *)
(*           trait takes &mut self), each callback one action, the remote  *)
(*           API's answers chosen nondeterministically.                    *)
(* HandleSpec  the open-handle table: lookup under the root, open, read    *)
(*           and release, with file bodies and reads of every length.      *)
(* TableSpec the InodeTable alone, its methods called from concurrent      *)
(*           threads, one action per DashMap / atomic operation.           *)
(* SeqSpec   the steps of TableSpec with one call in progress at a time.   *)
(* LifeSpec  the callbacks of HandleSpec with the count of the handles the *)
(*           kernel holds on each inode.                                   *)
(* ClientSpec  EgnyteAPIClient::request, one call after the other, on any  *)
(*           token record, the remote's answers chosen by the environment. *)
(* PaceSpec  concurrent request calls that are answered at once: the rate  *)
(*           limiter and the clock.                                        *)
(***************************************************************************)
EXTENDS Integers, Sequences, FiniteSets, TLC

VARIABLES
    path_to_inode,  \* InodeTable.path_to_inode : path -> inode
    inode_to_path,  \* InodeTable.inode_to_path : inode -> path
    next_inode,     \* InodeTable.next_inode
    open_files,     \* EgnyteFuse.open_files : inode -> content
    request,        \* the kernel request being answered, NoRequest when idle
    api_calls,      \* the EgnyteAPI calls the current callback made, in order
    reply,          \* the reply sent for the current request
    pc,             \* TableSpec: thread -> position in its InodeTable call
    call,           \* TableSpec: thread -> the call it runs
    local,          \* TableSpec: thread -> inode / path held in a local
    returned,       \* history: path -> inodes get_or_create_inode returned for
                    \*   it since the last remove / remove_path call
    forgot,         \* history: a remove / remove_path call has been made
    allocated,      \* history: the inodes fetch_add handed out, in order
    outstanding,    \* history: inode -> opens that stored a buffer and have
                    \*   not been released yet
    now,            \* the clock (Instant::now), in ms since the client was built
    last_call,      \* RateLimiter.last_call : Option<Instant>
    last_call_lock, \* the callers holding the mutex around last_call
    access_token,   \* ClientInner.access_token : Option<String>
    token_expires_at, \* ClientInner.token_expires_at : Option<Instant>
    token_file,     \* tokens.json : the record persisted last
    caller,         \* caller -> position and locals of its request() call
    trace,          \* history: caller -> what its current call has done
    stamps,         \* history: the values stored into last_call, in order
    minted,         \* history: access tokens the provider has issued
    started,        \* history: request() calls started
    job,            \* LiveSpec: the callback entered and the task it waits for
    overflow_checks, \* the build panics on integer overflow (else it wraps)
    last_sent       \* history: the instant of the last request sent

table_vars  == <<path_to_inode, inode_to_path, next_inode>>
driver_vars == <<open_files, request, api_calls, reply>>
thread_vars == <<pc, call, local>>
hist_vars   == <<returned, forgot, allocated>>
limiter_vars == <<last_call, last_call_lock, stamps>>
token_vars  == <<access_token, token_expires_at, token_file, minted>>
client_vars == <<now, limiter_vars, token_vars, caller, trace, started, last_sent>>
vars == <<table_vars, driver_vars, thread_vars, hist_vars, client_vars, outstanding,
          job, overflow_checks>>

----------------------------------------------------------------------------
(* Bounds of the model *)

\* allocation stops once next_inode exceeds MaxInode
MaxInode == 3
\* longest file content the remote returns
MaxLen == 2
\* largest readdir offset the kernel asks for
MaxOffset == 3
\* threads calling the InodeTable concurrently
NumThreads == 2
\* TableSpec / SeqSpec: the largest inode the calls in progress may allocate
MaxTableInode == 3
\* LifeSpec: opens of one inode that await their release at the same time
MaxHandles == 2
\* request() calls started in one behaviour
MaxCalls == 2
\* callers of the API client
NumCallers == 2
\* PaceSpec: the clock value past which the environment adds no delay
MaxNow == 300
\* the bits of the word that stands for u64, so that every size is tried
WordBits == 10

(* Program constants *)
ROOT_INODE == 1
FIRST_INODE == 2
ENOENT == 2
EIO == 5
EBADF == 9
\* RateLimiter::new(10.0)
QPS == 10
\* get_valid_token: Duration::from_secs(60)
LOOKAHEAD_SECS == 60
\* refresh_token: unwrap_or(3600)
DEFAULT_EXPIRES_IN == 3600
\* request: let mut retries = 5
RETRIES == 5
\* request: Duration::from_millis(500)
BACKOFF_MS == 500
UNAUTHORIZED == 401
TOO_MANY_REQUESTS == 429
\* lookup, getattr: (entry.size + 511) / 512
BLOCK_SIZE == 512
BLOCK_ROUND == 511

Names == {"a", "b"}

----------------------------------------------------------------------------
(* Paths: PathBuf as the sequence of its components, "/" the empty one *)

Root == <<>>

\* Path::join with a plain component
Join(path, name) == Append(path, name)

\* Path::parent of a path other than "/"
Parent(path) == SubSeq(path, 1, Len(path) - 1)

----------------------------------------------------------------------------
(* DashMap / HashMap operations; Option<T> as a set with at most one member *)

MapGet(m, k) == IF k \in DOMAIN m THEN {m[k]} ELSE {}

MapInsert(m, k, v) == [x \in DOMAIN m \cup {k} |-> IF x = k THEN v ELSE m[x]]

MapRemove(m, k) == [x \in DOMAIN m \ {k} |-> m[x]]

EmptyMap == [x \in {} |-> 0]

\* fetch_add that stores the value it read
fetch_add_stuck(n) == n

\* AtomicU64::fetch_add(1): the stored value after the call
fetch_add(n) == n + 1

----------------------------------------------------------------------------
(* InodeTable, as seen by a caller that runs a method without interference *)

Table == [path_to_inode |-> path_to_inode,
          inode_to_path |-> inode_to_path,
          next_inode    |-> next_inode]

\* InodeTable::new
NewTable == [path_to_inode |-> MapInsert(EmptyMap, Root, ROOT_INODE),
             inode_to_path |-> MapInsert(EmptyMap, ROOT_INODE, Root),
             next_inode    |-> FIRST_INODE]

get_inode(t, path) == MapGet(t.path_to_inode, path)

get_path(t, inode) == MapGet(t.inode_to_path, inode)

\* get_or_create_inode: the table afterwards and the inode returned
get_or_create_inode(t, path) ==
    IF path \in DOMAIN t.path_to_inode
    THEN [table |-> t, inode |-> t.path_to_inode[path]]
    ELSE LET inode == t.next_inode
         IN [table |-> [path_to_inode |-> MapInsert(t.path_to_inode, path, inode),
                        inode_to_path |-> MapInsert(t.inode_to_path, inode, path),
                        next_inode    |-> fetch_add(t.next_inode)],
             inode |-> inode]

SetTable(t) ==
    /\ path_to_inode' = t.path_to_inode
    /\ inode_to_path' = t.inode_to_path
    /\ next_inode' = t.next_inode

----------------------------------------------------------------------------
(* The remote API's answers (trait EgnyteAPI), chosen by the environment *)

\* Result<EgnyteEntry>: the fields of the entry the driver reads
FileInfos == {[ok |-> FALSE, is_folder |-> FALSE, size |-> 0]}
             \cup {[ok |-> TRUE, is_folder |-> f, size |-> 0] : f \in BOOLEAN}

\* u64::MAX
MaxWord == 2^WordBits - 1

\* every value of EgnyteEntry.size
Sizes == 0..MaxWord

\* the entries of files of every size
SizedInfos == {[ok |-> TRUE, is_folder |-> FALSE, size |-> s] : s \in Sizes}

\* a file body of n bytes, every byte different from its neighbours
Content(n) == [k \in 1..n |-> 10 * k]

Contents == {Content(n) : n \in 0..MaxLen}

\* Result<Vec<u8>>
Downloads == {[ok |-> FALSE, content |-> <<>>]}
             \cup {[ok |-> TRUE, content |-> c] : c \in Contents}

\* EgnyteEntry of a folder listing
Entries == [name : Names, is_folder : BOOLEAN]

\* Vec<EgnyteEntry>: entries with distinct names
Listings == {l \in UNION {[1..n -> Entries] : n \in 0..Cardinality(Names)} :
                \A i, j \in DOMAIN l : i # j => l[i].name # l[j].name}

\* Result<Vec<EgnyteEntry>>
FolderLists == {[ok |-> FALSE, entries |-> <<>>]}
               \cup {[ok |-> TRUE, entries |-> l] : l \in Listings}

\* inode numbers the kernel may pass: those handed out and one never handed out
KernelInodes == 1..(MaxInode + 1)

----------------------------------------------------------------------------
(* Requests and replies *)

NoRequest == [op |-> "none"]

NoReply == [kind |-> "none"]

ReplyError(errno) == [kind |-> "error", errno |-> errno]

\* reply.entry(&ttl, &attr, 0) / reply.attr(&ttl, &attr)
ReplyEntry(attr, ttl) == [kind |-> "entry", attr |-> attr, ttl |-> ttl]

ReplyAttr(attr, ttl) == [kind |-> "attr", attr |-> attr, ttl |-> ttl]

\* reply.opened(inode, 0)
ReplyOpened(fh) == [kind |-> "opened", fh |-> fh]

\* reply.data(&data)
ReplyData(data) == [kind |-> "data", data |-> data]

\* the entries added with reply.add, then reply.ok()
ReplyDirectory(entries) == [kind |-> "directory", entries |-> entries]

\* ReplyEmpty::ok
ReplyOk == [kind |-> "ok"]

FileTypeOf(is_folder) == IF is_folder THEN "Directory" ELSE "RegularFile"

\* a + b in u64: the sum, wrapped where the build does not check for
\* overflow, nothing where it does and panics
u64_add(a, b) ==
    IF a + b <= MaxWord THEN {a + b}
    ELSE IF overflow_checks THEN {}
    ELSE {(a + b) % (MaxWord + 1)}

\* (entry.size + 511) / 512
blocks(size) == {sum \div BLOCK_SIZE : sum \in u64_add(size, BLOCK_ROUND)}

\* building the FileAttr panics
Panics(entry) == blocks(entry.size) = {}

\* FileAttr: the fields that depend on the table and on the entry
FileAttr(inode, entry) ==
    [ino    |-> inode,
     size   |-> entry.size,
     blocks |-> CHOOSE b \in blocks(entry.size) : TRUE,
     kind   |-> FileTypeOf(entry.is_folder),
     perm   |-> IF entry.is_folder THEN "0o755" ELSE "0o644"]

\* one call of the EgnyteAPI trait: the method, its path argument, its result
ApiCall(fn, path, result) == [fn |-> fn, path |-> path, result |-> result]

Idle == request = NoRequest

\* no callback has been entered
NoJob == [stage |-> "none"]

Answer(req, calls, rep) ==
    /\ request' = req
    /\ api_calls' = calls
    /\ reply' = rep

----------------------------------------------------------------------------
(* lookup *)

\* child_path that takes every name as a child of the root
child_path_flat(parent_path, name) == Join(Root, name)

\* the path built from the parent's path and the name
child_path(parent_path, name) ==
    IF parent_path = Root THEN Join(Root, name) ELSE Join(parent_path, name)

\* the spawned task: its result and the table it leaves
\* lookup_task resolving the inode before it asks the remote
lookup_task_eager(t, path, info) ==
    LET r == get_or_create_inode(t, path)
    IN IF ~info.ok
       THEN [ok |-> FALSE, err |-> ENOENT, table |-> r.table]
       ELSE [ok |-> TRUE, inode |-> r.inode, attr |-> FileAttr(r.inode, info),
             ttl |-> 1, table |-> r.table]

\* a task that panics is joined as Err(JoinError): the `_` arm replies ENOENT
lookup_task(t, path, info) ==
    IF ~info.ok
    THEN [ok |-> FALSE, err |-> ENOENT, table |-> t]
    ELSE LET r == get_or_create_inode(t, path)
         IN IF Panics(info)
            THEN [ok |-> FALSE, err |-> ENOENT, table |-> r.table]
            ELSE [ok |-> TRUE, inode |-> r.inode, attr |-> FileAttr(r.inode, info),
                  ttl |-> 1, table |-> r.table]

lookup(parent, name, info) ==
    /\ Idle
    /\ LET req == [op |-> "lookup", inode |-> parent, name |-> name]
           parent_path == get_path(Table, parent)
       IN IF parent_path = {}
          THEN /\ Answer(req, <<>>, ReplyError(ENOENT))
               /\ UNCHANGED table_vars
          ELSE LET path == child_path(CHOOSE p \in parent_path : TRUE, name)
                   task == lookup_task(Table, path, info)
               IN /\ task.table.next_inode <= MaxInode + 1
                  /\ SetTable(task.table)
                  /\ Answer(req, <<ApiCall("get_file_info", path, info)>>,
                            IF task.ok THEN ReplyEntry(task.attr, task.ttl)
                                       ELSE ReplyError(ENOENT))
    /\ UNCHANGED <<open_files, thread_vars, hist_vars,
                   client_vars, job, overflow_checks, outstanding>>

----------------------------------------------------------------------------
(* getattr *)

getattr_task(inode, info) ==
    IF ~info.ok \/ Panics(info)
    THEN [ok |-> FALSE, err |-> ENOENT]
    ELSE [ok |-> TRUE, attr |-> FileAttr(inode, info), ttl |-> 1]

getattr(inode, info) ==
    /\ Idle
    /\ LET req == [op |-> "getattr", inode |-> inode]
           path == get_path(Table, inode)
       IN IF path = {}
          THEN Answer(req, <<>>, ReplyError(ENOENT))
          ELSE LET task == getattr_task(inode, info)
               IN Answer(req,
                         <<ApiCall("get_file_info", CHOOSE p \in path : TRUE, info)>>,
                         IF task.ok THEN ReplyAttr(task.attr, task.ttl)
                                    ELSE ReplyError(ENOENT))
    /\ UNCHANGED <<table_vars, open_files, thread_vars, hist_vars,
                   client_vars, job, overflow_checks, outstanding>>

----------------------------------------------------------------------------
(* readdir *)

DirEntry(ino, kind, name) == [ino |-> ino, kind |-> kind, name |-> name]

\* the loop over the remote entries: the table and the list it leaves
RECURSIVE readdir_children(_, _, _, _)
readdir_children(t, path, entries, dir_entries) ==
    IF entries = <<>>
    THEN [table |-> t, dir_entries |-> dir_entries]
    ELSE LET entry == Head(entries)
             entry_path == IF path = Root THEN Join(Root, entry.name)
                                          ELSE Join(path, entry.name)
             r == get_or_create_inode(t, entry_path)
         IN readdir_children(r.table, path, Tail(entries),
                Append(dir_entries,
                       DirEntry(r.inode, FileTypeOf(entry.is_folder), entry.name)))

\* readdir_task naming the directory itself as its parent
readdir_task_dotdot_self(t, inode, path, list) ==
    IF ~list.ok
    THEN [ok |-> FALSE, err |-> ENOENT, table |-> t]
    ELSE LET dot == <<DirEntry(inode, "Directory", ".")>>
             r == readdir_children(t, path, list.entries,
                                   Append(dot, DirEntry(inode, "Directory", "..")))
         IN [ok |-> TRUE, dir_entries |-> r.dir_entries, table |-> r.table]

readdir_task(t, inode, path, list) ==
    IF ~list.ok
    THEN [ok |-> FALSE, err |-> ENOENT, table |-> t]
    ELSE LET dot == <<DirEntry(inode, "Directory", ".")>>
             up == IF path = Root
                   THEN [table |-> t, inode |-> inode]
                   ELSE get_or_create_inode(t, Parent(path))
             r == readdir_children(up.table, path, list.entries,
                                   Append(dot, DirEntry(up.inode, "Directory", "..")))
         IN [ok |-> TRUE, dir_entries |-> r.dir_entries, table |-> r.table]

Min(a, b) == IF a <= b THEN a ELSE b

\* the loop over dir_entries: reply.add refuses the entry after `room` entries
readdir_emit(dir_entries, offset, room) ==
    [k \in 1..Min(Len(dir_entries), room) |->
        [ino    |-> dir_entries[k].ino,
         offset |-> offset + k,
         kind   |-> dir_entries[k].kind,
         name   |-> dir_entries[k].name]]

\* entries the reply buffer takes before reply.add reports it full
Rooms == {1, 2, Cardinality(Names) + 2}

readdir(inode, offset, list, room) ==
    /\ Idle
    /\ LET req == [op |-> "readdir", inode |-> inode, offset |-> offset, room |-> room]
           path == get_path(Table, inode)
       IN IF path = {}
          THEN /\ Answer(req, <<>>, ReplyError(ENOENT))
               /\ UNCHANGED table_vars
          ELSE LET p == CHOOSE x \in path : TRUE
                   task == readdir_task(Table, inode, p, list)
               IN /\ task.table.next_inode <= MaxInode + 1
                  /\ SetTable(task.table)
                  /\ Answer(req, <<ApiCall("list_folder", p, list)>>,
                            IF task.ok
                            THEN ReplyDirectory(readdir_emit(task.dir_entries, offset, room))
                            ELSE ReplyError(ENOENT))
    /\ UNCHANGED <<open_files, thread_vars, hist_vars,
                   client_vars, job, overflow_checks, outstanding>>

----------------------------------------------------------------------------
(* open *)

\* the spawned task: its result, the calls it made and the open_files it leaves
open_task(files, inode, path, info, dl) ==
    LET meta == ApiCall("get_file_info", path, info)
        down == ApiCall("download_file", path, dl)
    IN IF ~info.ok
       THEN [ok |-> FALSE, err |-> ENOENT, calls |-> <<meta>>, files |-> files]
       ELSE IF info.is_folder
       THEN [ok |-> TRUE, calls |-> <<meta>>, files |-> files]
       ELSE IF ~dl.ok
       THEN [ok |-> FALSE, err |-> EIO, calls |-> <<meta, down>>, files |-> files]
       ELSE [ok |-> TRUE, calls |-> <<meta, down>>,
             files |-> MapInsert(files, inode, dl.content)]

\* the match on the joined task
open_reply(task, inode) ==
    IF task.ok THEN ReplyOpened(inode) ELSE ReplyError(ENOENT)

open(inode, info, dl) ==
    /\ Idle
    /\ LET req == [op |-> "open", inode |-> inode]
           path == get_path(Table, inode)
       IN IF path = {}
          THEN /\ Answer(req, <<>>, ReplyError(ENOENT))
               /\ UNCHANGED open_files
          ELSE LET task == open_task(open_files, inode, CHOOSE p \in path : TRUE,
                                     info, dl)
               IN /\ open_files' = task.files
                  /\ Answer(req, task.calls, open_reply(task, inode))
    /\ UNCHANGED <<table_vars, thread_vars, hist_vars, client_vars, job, overflow_checks>>

----------------------------------------------------------------------------
(* read *)

\* read_task reading from the start of the buffer whatever the offset
read_task_ignores_offset(files, inode, offset, size) ==
    LET content == MapGet(files, inode)
    IN IF content = {}
       THEN [ok |-> FALSE, err |-> EBADF]
       ELSE LET c == CHOOSE x \in content : TRUE
                end == Min(size, Len(c))
            IN IF offset >= Len(c)
               THEN [ok |-> TRUE, data |-> <<>>]
               ELSE [ok |-> TRUE, data |-> SubSeq(c, 1, end)]

\* read_task answering a missing handle with no bytes
read_task_missing_is_empty(files, inode, offset, size) ==
    LET content == MapGet(files, inode)
    IN IF content = {}
       THEN [ok |-> TRUE, data |-> <<>>]
       ELSE LET c == CHOOSE x \in content : TRUE
                end == Min(offset + size, Len(c))
            IN IF offset >= Len(c)
               THEN [ok |-> TRUE, data |-> <<>>]
               ELSE [ok |-> TRUE, data |-> SubSeq(c, offset + 1, end)]

read_task(files, inode, offset, size) ==
    LET content == MapGet(files, inode)
    IN IF content = {}
       THEN [ok |-> FALSE, err |-> EBADF]
       ELSE LET c == CHOOSE x \in content : TRUE
                end == Min(offset + size, Len(c))
            IN IF offset >= Len(c)
               THEN [ok |-> TRUE, data |-> <<>>]
               ELSE [ok |-> TRUE, data |-> SubSeq(c, offset + 1, end)]

read(inode, offset, size) ==
    /\ Idle
    /\ LET req == [op |-> "read", inode |-> inode, offset |-> offset, size |-> size]
           task == read_task(open_files, inode, offset, size)
       IN Answer(req, <<>>, IF task.ok THEN ReplyData(task.data) ELSE ReplyError(EBADF))
    /\ UNCHANGED <<table_vars, open_files, thread_vars, hist_vars,
                   client_vars, job, overflow_checks, outstanding>>

----------------------------------------------------------------------------
(* release *)

\* release_task emptying the whole table
release_task_clears(files, inode) == [ok |-> TRUE, files |-> EmptyMap]

release_task(files, inode) == [ok |-> TRUE, files |-> MapRemove(files, inode)]

\* release that also drops the inode's binding (InodeTable::remove)
release_forgets(inode) ==
    /\ Idle
    /\ LET req == [op |-> "release", inode |-> inode]
           task == release_task(open_files, inode)
           path == get_path(Table, inode)
       IN /\ open_files' = task.files
          /\ inode_to_path' = MapRemove(inode_to_path, inode)
          /\ path_to_inode' = IF path = {} THEN path_to_inode
                              ELSE MapRemove(path_to_inode, CHOOSE p \in path : TRUE)
          /\ Answer(req, <<>>, ReplyOk)
    /\ UNCHANGED <<next_inode, thread_vars, hist_vars, client_vars, job, overflow_checks>>

release(inode) ==
    /\ Idle
    /\ LET req == [op |-> "release", inode |-> inode]
           task == release_task(open_files, inode)
       IN /\ open_files' = task.files
          /\ Answer(req, <<>>, IF task.ok THEN ReplyOk ELSE ReplyError(EBADF))
    /\ UNCHANGED <<table_vars, thread_vars, hist_vars, client_vars, job, overflow_checks>>

----------------------------------------------------------------------------
(* The session loop: the callback has returned, the next request is read *)

next_request ==
    /\ ~Idle
    /\ Answer(NoRequest, <<>>, NoReply)
    /\ UNCHANGED <<table_vars, open_files, thread_vars, hist_vars,
                   client_vars, job, overflow_checks, outstanding>>

----------------------------------------------------------------------------
(* The API client (src/src/fs/api_client.rs).  Instants and Durations are   *)
(* counted in ms from the construction of the client; the wall clock shows  *)
(* now \div 1000 seconds.                                                   *)

Callers == 1..NumCallers

Max(a, b) == IF a >= b THEN a ELSE b

\* Duration::from_secs
from_secs(secs) == 1000 * secs

\* RateLimiter::new: Duration::from_secs_f64(1.0 / qps)
min_interval == 1000 \div QPS

\* Instant::saturating_duration_since
saturating_duration_since(later, earlier) == Max(later - earlier, 0)

\* a sleep that returns at once
wake_time_at_once(t, deadline) == t

\* tokio::time::sleep: the clock when the sleeper runs again
wake_time(t, deadline) == Max(t, deadline)

\* reqwest StatusCode::is_success
is_success(status) == status >= 200 /\ status <= 299

\* statuses the remote answers a dispatch with
Statuses == {200, UNAUTHORIZED, TOO_MANY_REQUESTS, 500}

\* Result<Response> of send(): a transport error or a status
Answers == {[sent |-> FALSE, status |-> 0]}
           \cup {[sent |-> TRUE, status |-> s] : s \in Statuses}

\* seconds of lifetime left to the token record found at start
LeftAtStart == {0 - LOOKAHEAD_SECS, 30, LOOKAHEAD_SECS, DEFAULT_EXPIRES_IN}

\* TokenFile: tokens.json as read by EgnyteAPIClient::new
TokenFiles ==
    {[access_token |-> a, issued_at |-> {}, expires_in |-> {}] : a \in {{}, {0}}}
    \cup {[access_token |-> a,
           issued_at |-> {left - DEFAULT_EXPIRES_IN},
           expires_in |-> {DEFAULT_EXPIRES_IN}] : a \in {{}, {0}}, left \in LeftAtStart}

\* the record of a login that has just been made
FreshLogin == [access_token |-> {0}, issued_at |-> {0},
               expires_in |-> {DEFAULT_EXPIRES_IN}]

\* EgnyteAPIClient::new: token_expires_at from the record, at clock t
expires_at_start(token_data, t) ==
    IF token_data.issued_at = {} \/ token_data.expires_in = {}
    THEN {}
    ELSE LET issued == CHOOSE i \in token_data.issued_at : TRUE
             expires_in == CHOOSE e \in token_data.expires_in : TRUE
             expires_at_secs == issued + expires_in
             now_secs == t \div 1000
         IN IF expires_at_secs > now_secs
            THEN {t + from_secs(expires_at_secs - now_secs)}
            ELSE {t}

\* the outcome of the token exchange: the step of refresh_token that fails,
\* or the expires_in of the response
ExpiresIns == {{}, {30}, {LOOKAHEAD_SECS}}

RefreshAnswers ==
    {[step |-> s, expires_in |-> {}] : s \in {"credential", "status", "access_token"}}
    \cup {[step |-> "ok", expires_in |-> e] : e \in ExpiresIns}

NoResult == [kind |-> "none"]

Ok(status) == [kind |-> "ok", status |-> status]

Err(why, status) == [kind |-> "err", why |-> why, status |-> status]

IdleTask == [stage |-> "idle", token_ret |-> "none", refresh_ret |-> "none",
             token |-> {}, retries |-> 0, backoff |-> 0, deadline |-> 0,
             fresh |-> {}]

NoTrace == [log |-> <<>>, result |-> NoResult]

fs_vars == <<table_vars, driver_vars, thread_vars, hist_vars, outstanding,
             job, overflow_checks>>

\* the caller goes on at `stage` with the locals changed as given
Goes(c, locals) == caller' = [caller EXCEPT ![c] = locals]

Logs(c, event) == trace' = [trace EXCEPT ![c].log = Append(@, event)]

\* request() returns
Returns(c, result, events) ==
    /\ caller' = [caller EXCEPT ![c] = [IdleTask EXCEPT !.stage = "done"]]
    /\ trace' = [trace EXCEPT ![c] = [log |-> trace[c].log \o events,
                                      result |-> result]]

\* a capability call (list_folder, get_file_info, download_file) enters request
request_start(c) ==
    /\ caller[c].stage \in {"idle", "done"}
    /\ started < MaxCalls
    /\ started' = started + 1
    /\ Goes(c, [IdleTask EXCEPT !.stage = "pace_lock", !.token_ret = "dispatch"])
    /\ trace' = [trace EXCEPT ![c] = NoTrace]
    /\ UNCHANGED <<fs_vars, now, limiter_vars, token_vars, last_sent>>

----------------------------------------------------------------------------
(* RateLimiter::wait_if_needed *)

\* lines 98-101: the lock is taken and the time since the last call is read
pace_lock(c) ==
    /\ caller[c].stage = "pace_lock"
    /\ last_call_lock = {}
    /\ last_call_lock' = {c}
    /\ LET elapsed == IF last_call = {} THEN min_interval
                      ELSE now - (CHOOSE l \in last_call : TRUE)
       IN IF last_call # {} /\ elapsed < min_interval
          THEN Goes(c, [caller[c] EXCEPT !.stage = "pace_sleep",
                                       !.deadline = now + (min_interval - elapsed)])
          ELSE Goes(c, [caller[c] EXCEPT !.stage = "pace_stamp"])
    /\ UNCHANGED <<fs_vars, now, last_call, stamps, token_vars, trace, started, last_sent>>

\* line 102: sleep(self.min_interval - elapsed), the lock held
pace_sleep(c) ==
    /\ caller[c].stage = "pace_sleep"
    /\ now' = wake_time(now, caller[c].deadline)
    /\ Goes(c, [caller[c] EXCEPT !.stage = "pace_stamp", !.deadline = 0])
    /\ UNCHANGED <<fs_vars, limiter_vars, token_vars, trace, started, last_sent>>

\* lines 105-106: *last = Some(Instant::now()), the guard dropped
pace_stamp(c) ==
    /\ caller[c].stage = "pace_stamp"
    /\ last_call' = {now}
    /\ stamps' = Append(stamps, now)
    /\ last_call_lock' = last_call_lock \ {c}
    /\ Goes(c, [caller[c] EXCEPT !.stage = "token_check"])
    /\ UNCHANGED <<fs_vars, now, token_vars, trace, started, last_sent>>

\* the scheduler or the network delays everybody
tick(d) ==
    /\ now + d <= MaxNow
    /\ now' = now + d
    /\ UNCHANGED <<fs_vars, limiter_vars, token_vars, caller, trace, started, last_sent>>

----------------------------------------------------------------------------
(* get_valid_token *)

\* lines 200-205
needs_refresh(expires_at, t) ==
    IF expires_at = {}
    THEN TRUE
    ELSE saturating_duration_since(CHOOSE e \in expires_at : TRUE, t)
            < from_secs(LOOKAHEAD_SECS)

\* lines 200-209: the expiry is read and refresh_token entered if needed
token_check(c) ==
    /\ caller[c].stage = "token_check"
    /\ IF needs_refresh(token_expires_at, now)
       THEN Goes(c, [caller[c] EXCEPT !.stage = "refresh_post",
                                    !.refresh_ret = "token_read"])
       ELSE Goes(c, [caller[c] EXCEPT !.stage = "token_read"])
    /\ UNCHANGED <<fs_vars, now, limiter_vars, token_vars, trace, started, last_sent>>

\* lines 211-215, and request lines 325-329 when the token is the first one
token_read(c) ==
    /\ caller[c].stage = "token_read"
    /\ IF access_token = {}
       THEN Returns(c, Err("No access token available", 0), <<>>)
       ELSE /\ Goes(c, IF caller[c].token_ret = "dispatch"
                       THEN [caller[c] EXCEPT !.stage = "dispatch",
                                            !.token = access_token,
                                            !.retries = RETRIES,
                                            !.backoff = BACKOFF_MS]
                       ELSE [caller[c] EXCEPT !.stage = caller[c].token_ret,
                                            !.token = access_token])
            /\ UNCHANGED trace
    /\ UNCHANGED <<fs_vars, now, limiter_vars, token_vars, started, last_sent>>

----------------------------------------------------------------------------
(* refresh_token *)

RefreshEvent(ok) == [ev |-> "refresh", ok |-> ok]

\* lines 220-282: the credentials are read, the token exchange is made and
\* its response parsed
refresh_post(c, answer) ==
    /\ caller[c].stage = "refresh_post"
    /\ IF answer.step # "ok"
       THEN /\ Returns(c, Err(answer.step, 0), <<RefreshEvent(FALSE)>>)
            /\ UNCHANGED minted
       ELSE /\ minted' = minted + 1
            /\ Goes(c, [caller[c] EXCEPT
                  !.stage = "refresh_persist",
                  !.fresh = {[access_token |-> minted + 1,
                              expires_in |-> IF answer.expires_in = {}
                                             THEN DEFAULT_EXPIRES_IN
                                             ELSE CHOOSE e \in answer.expires_in : TRUE,
                              issued_at |-> now \div 1000]}])
            /\ UNCHANGED trace
    /\ UNCHANGED <<fs_vars, now, limiter_vars, access_token, token_expires_at,
                   token_file, started, last_sent>>

\* refresh_persist updating the token in memory before the write is known to
\* have succeeded
refresh_persist_stores_first(c, ok) ==
    /\ caller[c].stage = "refresh_persist"
    /\ LET new == CHOOSE f \in caller[c].fresh : TRUE
       IN /\ access_token' = {new.access_token}
          /\ token_expires_at' = {now + from_secs(new.expires_in)}
          /\ IF ok
             THEN /\ token_file' = [access_token |-> {new.access_token},
                                    issued_at |-> {new.issued_at},
                                    expires_in |-> {new.expires_in}]
                  /\ Goes(c, [caller[c] EXCEPT !.stage = "refresh_store"])
                  /\ UNCHANGED trace
             ELSE /\ Returns(c, Err("write", 0), <<RefreshEvent(FALSE)>>)
                  /\ UNCHANGED token_file
    /\ UNCHANGED <<fs_vars, now, limiter_vars, minted, started, last_sent>>

\* lines 300-305: tokio::fs::write(&token_file, token_json)
refresh_persist(c, ok) ==
    /\ caller[c].stage = "refresh_persist"
    /\ LET new == CHOOSE f \in caller[c].fresh : TRUE
       IN IF ok
          THEN /\ token_file' = [access_token |-> {new.access_token},
                                 issued_at |-> {new.issued_at},
                                 expires_in |-> {new.expires_in}]
               /\ Goes(c, [caller[c] EXCEPT !.stage = "refresh_store"])
               /\ UNCHANGED trace
          ELSE /\ Returns(c, Err("write", 0), <<RefreshEvent(FALSE)>>)
               /\ UNCHANGED token_file
    /\ UNCHANGED <<fs_vars, now, limiter_vars, access_token, token_expires_at,
                   minted, started, last_sent>>

\* the caller is inside refresh_token
Refreshing(c) ==
    caller[c].stage \in {"refresh_post", "refresh_persist", "refresh_store"}

\* refresh_store writing the token and leaving the expiry for later
refresh_store_torn(c) ==
    /\ caller[c].stage = "refresh_store"
    /\ LET new == CHOOSE f \in caller[c].fresh : TRUE
       IN /\ access_token' = {new.access_token}
          /\ token_expires_at' = IF \E d \in Callers \ {c} : Refreshing(d)
                                 THEN token_expires_at
                                 ELSE {now + from_secs(new.expires_in)}
    /\ Goes(c, [caller[c] EXCEPT !.stage = caller[c].refresh_ret,
                               !.refresh_ret = "none", !.fresh = {}])
    /\ Logs(c, RefreshEvent(TRUE))
    /\ UNCHANGED <<fs_vars, now, limiter_vars, token_file, minted, started, last_sent>>

\* lines 308-314: the new token and its expiry are stored under the write lock
refresh_store(c) ==
    /\ caller[c].stage = "refresh_store"
    /\ LET new == CHOOSE f \in caller[c].fresh : TRUE
       IN /\ access_token' = {new.access_token}
          /\ token_expires_at' = {now + from_secs(new.expires_in)}
    /\ Goes(c, [caller[c] EXCEPT !.stage = caller[c].refresh_ret,
                               !.refresh_ret = "none", !.fresh = {}])
    /\ Logs(c, RefreshEvent(TRUE))
    /\ UNCHANGED <<fs_vars, now, limiter_vars, token_file, minted, started, last_sent>>

----------------------------------------------------------------------------
(* request: the loop of lines 331-378 *)

DispatchEvent(token, answer, retry) ==
    [ev |-> "dispatch", token |-> token, sent |-> answer.sent,
     status |-> answer.status, retry |-> retry]

SleepEvent(ms) == [ev |-> "sleep", ms |-> ms]

\* backoff that stays as it is
next_backoff_same(backoff) == backoff

\* line 364: backoff = backoff * 2
next_backoff(backoff) == backoff * 2

\* dispatch sleeping on a 429 once more when no retry is left
dispatch_retries_once_more(c, answer) ==
    /\ caller[c].stage = "dispatch"
    /\ LET event == DispatchEvent(caller[c].token, answer, FALSE)
       IN IF ~answer.sent
          THEN Returns(c, Err("API request failed", 0), <<event>>)
          ELSE IF answer.status = UNAUTHORIZED
          THEN /\ Goes(c, [caller[c] EXCEPT !.stage = "refresh_post",
                                          !.refresh_ret = "token_check",
                                          !.token_ret = "retry_dispatch"])
               /\ Logs(c, event)
          ELSE IF answer.status = TOO_MANY_REQUESTS /\ caller[c].retries >= 0
          THEN /\ Goes(c, [caller[c] EXCEPT !.stage = "backoff",
                                          !.retries = @ - 1,
                                          !.deadline = now + caller[c].backoff])
               /\ Logs(c, event)
          ELSE IF ~is_success(answer.status)
          THEN Returns(c, Err("status", answer.status), <<event>>)
          ELSE Returns(c, Ok(answer.status), <<event>>)
    /\ last_sent' = {now}
    /\ UNCHANGED <<fs_vars, now, limiter_vars, token_vars, started>>

\* lines 332-377: the request is sent and the status looked at
dispatch(c, answer) ==
    /\ caller[c].stage = "dispatch"
    /\ LET event == DispatchEvent(caller[c].token, answer, FALSE)
       IN IF ~answer.sent
          THEN Returns(c, Err("API request failed", 0), <<event>>)
          ELSE IF answer.status = UNAUTHORIZED
          THEN /\ Goes(c, [caller[c] EXCEPT !.stage = "refresh_post",
                                          !.refresh_ret = "token_check",
                                          !.token_ret = "retry_dispatch"])
               /\ Logs(c, event)
          ELSE IF answer.status = TOO_MANY_REQUESTS /\ caller[c].retries > 0
          THEN /\ Goes(c, [caller[c] EXCEPT !.stage = "backoff",
                                          !.retries = @ - 1,
                                          !.deadline = now + caller[c].backoff])
               /\ Logs(c, event)
          ELSE IF ~is_success(answer.status)
          THEN Returns(c, Err("status", answer.status), <<event>>)
          ELSE Returns(c, Ok(answer.status), <<event>>)
    /\ last_sent' = {now}
    /\ UNCHANGED <<fs_vars, now, limiter_vars, token_vars, started>>

\* lines 345-375 after a 401: the result of request once the request sent
\* again is answered; `response` of line 359 is the first response
retry_result(first_status, answer) ==
    IF ~answer.sent THEN Err("API request failed after refresh", 0)
    ELSE IF is_success(answer.status) THEN Ok(answer.status)
    ELSE Err("status", first_status)

\* retry_dispatch looking at the second response as the loop looks at the
\* first: a 429 is slept on and the request sent once more
retry_dispatch_backs_off(c, answer) ==
    /\ caller[c].stage = "retry_dispatch"
    /\ IF answer.sent /\ answer.status = TOO_MANY_REQUESTS /\ caller[c].retries > 0
       THEN /\ Goes(c, [caller[c] EXCEPT !.stage = "backoff",
                                       !.retries = @ - 1,
                                       !.deadline = now + caller[c].backoff])
            /\ Logs(c, DispatchEvent(caller[c].token, answer, TRUE))
       ELSE Returns(c, retry_result(UNAUTHORIZED, answer),
                    <<DispatchEvent(caller[c].token, answer, TRUE)>>)
    /\ last_sent' = {now}
    /\ UNCHANGED <<fs_vars, now, limiter_vars, token_vars, started>>

\* lines 345-375: the request is sent again with the new token
retry_dispatch(c, answer) ==
    /\ caller[c].stage = "retry_dispatch"
    /\ Returns(c, retry_result(UNAUTHORIZED, answer),
               <<DispatchEvent(caller[c].token, answer, TRUE)>>)
    /\ last_sent' = {now}
    /\ UNCHANGED <<fs_vars, now, limiter_vars, token_vars, started>>

\* lines 363-365: sleep(backoff), backoff doubled, the loop entered again
backoff_sleep(c) ==
    /\ caller[c].stage = "backoff"
    /\ now' = wake_time(now, caller[c].deadline)
    /\ Goes(c, [caller[c] EXCEPT !.stage = "dispatch", !.deadline = 0,
                               !.backoff = next_backoff(@)])
    /\ Logs(c, SleepEvent(caller[c].backoff))
    /\ UNCHANGED <<fs_vars, limiter_vars, token_vars, started, last_sent>>

----------------------------------------------------------------------------
Threads == 1..NumThreads

\* EgnyteAPIClient::new on the token record it finds
ClientStart(token_data) ==
    /\ now = 0
    /\ last_call = {}
    /\ last_call_lock = {}
    /\ access_token = token_data.access_token
    /\ token_expires_at = expires_at_start(token_data, 0)
    /\ token_file = token_data
    /\ caller = [c \in Callers |-> IdleTask]
    /\ trace = [c \in Callers |-> NoTrace]
    /\ stamps = <<>>
    /\ minted = 0
    /\ started = 0
    /\ last_sent = {}

\* InodeTable::new and EgnyteFuse::new
FsInit ==
    /\ path_to_inode = NewTable.path_to_inode
    /\ inode_to_path = NewTable.inode_to_path
    /\ next_inode = NewTable.next_inode
    /\ open_files = EmptyMap
    /\ request = NoRequest
    /\ api_calls = <<>>
    /\ reply = NoReply
    /\ pc = [t \in Threads |-> "idle"]
    /\ call = [t \in Threads |-> [op |-> "none"]]
    /\ local = [t \in Threads |-> {}]
    /\ returned = EmptyMap
    /\ forgot = FALSE
    /\ allocated = <<>>
    /\ outstanding = [inode \in KernelInodes |-> 0]
    /\ job = NoJob

Init == FsInit /\ ClientStart(FreshLogin) /\ overflow_checks = FALSE

(* Spec: every callback; the file bodies and the reads are kept to one shape *)

\* downloads that fail or deliver the longest body
FullDownloads == {d \in Downloads : d.ok => Len(d.content) = MaxLen}

Next ==
    \/ \E parent \in KernelInodes, name \in Names, info \in FileInfos :
          lookup(parent, name, info)
    \/ \E inode \in KernelInodes, info \in FileInfos : getattr(inode, info)
    \/ \E inode \in KernelInodes, offset \in 0..MaxOffset, list \in FolderLists,
          room \in Rooms : readdir(inode, offset, list, room)
    \/ \E inode \in KernelInodes, info \in FileInfos, dl \in FullDownloads :
          open(inode, info, dl) /\ UNCHANGED outstanding
    \/ \E inode \in KernelInodes : read(inode, 0, MaxLen)
    \/ \E inode \in KernelInodes : release(inode) /\ UNCHANGED outstanding
    \/ next_request

Spec == Init /\ [][Next]_vars

----------------------------------------------------------------------------
(* HandleSpec: the open-handle table, on the root and its children *)

HandleNext ==
    \/ \E name \in Names, info \in FileInfos : lookup(ROOT_INODE, name, info)
    \/ \E inode \in KernelInodes, info \in FileInfos, dl \in Downloads :
          open(inode, info, dl) /\ UNCHANGED outstanding
    \/ \E inode \in KernelInodes, offset \in 0..(MaxLen + 1), size \in 0..(MaxLen + 1) :
          read(inode, offset, size)
    \/ \E inode \in KernelInodes : release(inode) /\ UNCHANGED outstanding
    \/ next_request

HandleSpec == Init /\ [][HandleNext]_vars

----------------------------------------------------------------------------
(* LifeSpec: the callbacks of HandleSpec, with the count of the opens of    *)
(* each inode that stored a buffer and still await their release            *)

\* the open of this step stored a buffer
StoredBuffer(calls) == Len(calls) = 2 /\ calls[2].result.ok

\* the kernel holds one more handle on the inode
handle_opened(inode) ==
    IF reply'.kind = "opened" /\ StoredBuffer(api_calls')
    THEN /\ outstanding[inode] < MaxHandles
         /\ outstanding' = [outstanding EXCEPT ![inode] = @ + 1]
    ELSE UNCHANGED outstanding

\* the kernel releases a handle on the inode: it sends one release per open
handle_released(inode) ==
    /\ outstanding[inode] > 0
    /\ outstanding' = [outstanding EXCEPT ![inode] = @ - 1]

LifeNext ==
    \/ \E name \in Names, info \in FileInfos : lookup(ROOT_INODE, name, info)
    \/ \E inode \in KernelInodes, info \in FileInfos, dl \in FullDownloads :
          open(inode, info, dl) /\ handle_opened(inode)
    \/ \E inode \in KernelInodes : read(inode, 0, MaxLen)
    \/ \E inode \in KernelInodes : release(inode) /\ handle_released(inode)
    \/ next_request

LifeSpec == Init /\ [][LifeNext]_vars

----------------------------------------------------------------------------
(* LiveSpec: a callback in steps.  The session loop enters the callback,    *)
(* which spawns its task and blocks on the join handle; the task finishes   *)
(* once its HTTP round trips have returned, or it panics; the callback      *)
(* matches on the joined result, replies and returns.                       *)

Callbacks == {"lookup", "getattr", "readdir", "open", "read", "release"}

\* rt.spawn(..) and rt.block_on(handle): the callback waits for its task
callback_enter(op) ==
    /\ Idle
    /\ job = NoJob
    /\ job' = [stage |-> "blocked", op |-> op, outcome |-> "none"]
    /\ UNCHANGED <<table_vars, driver_vars, thread_vars, hist_vars, client_vars,
                   outstanding, overflow_checks>>

\* the task runs to its end, every round trip having returned, or panics
task_settles(outcome) ==
    /\ job.stage = "blocked"
    /\ job' = [job EXCEPT !.stage = "joinable", !.outcome = outcome]
    /\ UNCHANGED <<table_vars, driver_vars, thread_vars, hist_vars, client_vars,
                   outstanding, overflow_checks>>

\* block_on has returned the result of the task of callback op
Joined(op) ==
    /\ job.stage = "joinable"
    /\ job.op = op
    /\ job.outcome = "finished"

\* a join_error that sends no reply
join_error_silent(inode) ==
    /\ job.stage = "joinable"
    /\ job.outcome = "panicked"
    /\ job' = [job EXCEPT !.outcome = "lost"]
    /\ UNCHANGED <<table_vars, driver_vars, thread_vars, hist_vars, client_vars,
                   outstanding, overflow_checks>>

\* block_on has returned Err(JoinError): the `_` arm of the match
join_error(inode) ==
    /\ job.stage = "joinable"
    /\ job.outcome = "panicked"
    /\ Idle
    /\ Answer([op |-> job.op, inode |-> inode], <<>>,
              ReplyError(IF job.op \in {"read", "release"} THEN EBADF ELSE ENOENT))
    /\ UNCHANGED <<table_vars, open_files, thread_vars, hist_vars, client_vars,
                   outstanding, job, overflow_checks>>

\* the callback returns to the session loop
callback_returns ==
    /\ job.stage = "joinable"
    /\ reply # NoReply
    /\ job' = NoJob
    /\ UNCHANGED <<table_vars, driver_vars, thread_vars, hist_vars, client_vars,
                   outstanding, overflow_checks>>

\* the match on the joined result of a task that has finished
LiveServe ==
    \/ \E name \in Names, info \in FileInfos :
          Joined("lookup") /\ lookup(ROOT_INODE, name, info)
    \/ \E inode \in KernelInodes, info \in FileInfos :
          Joined("getattr") /\ getattr(inode, info)
    \/ \E inode \in KernelInodes, list \in FolderLists :
          Joined("readdir") /\ readdir(inode, 0, list, Cardinality(Names) + 2)
    \/ \E inode \in KernelInodes, info \in FileInfos, dl \in FullDownloads :
          Joined("open") /\ open(inode, info, dl) /\ UNCHANGED outstanding
    \/ \E inode \in KernelInodes : Joined("read") /\ read(inode, 0, MaxLen)
    \/ \E inode \in KernelInodes :
          Joined("release") /\ release(inode) /\ UNCHANGED outstanding

LiveJoinError == \E inode \in KernelInodes : join_error(inode)

LiveSettles == \E outcome \in {"finished", "panicked"} : task_settles(outcome)

LiveNextRequest == job = NoJob /\ next_request

LiveNext ==
    \/ \E op \in Callbacks : callback_enter(op)
    \/ LiveSettles
    \/ LiveServe
    \/ LiveJoinError
    \/ callback_returns
    \/ LiveNextRequest

\* every round trip returns and the threads of the driver keep running
LiveFairness ==
    /\ WF_vars(LiveSettles)
    /\ WF_vars(LiveServe)
    /\ WF_vars(LiveJoinError)
    /\ WF_vars(callback_returns)
    /\ WF_vars(LiveNextRequest)

LiveSpec == Init /\ [][LiveNext]_vars /\ LiveFairness

----------------------------------------------------------------------------
(* ClientSpec: request() calls made one after the other on a client built   *)
(* on any token record, the remote's answers chosen nondeterministically    *)

ClientInit ==
    /\ FsInit
    /\ \E token_data \in TokenFiles : ClientStart(token_data)
    /\ overflow_checks = FALSE

ClientNext ==
    \E c \in {1} :
        \/ request_start(c)
        \/ pace_lock(c)
        \/ pace_sleep(c)
        \/ pace_stamp(c)
        \/ token_check(c)
        \/ token_read(c)
        \/ \E answer \in RefreshAnswers : refresh_post(c, answer)
        \/ \E ok \in BOOLEAN : refresh_persist(c, ok)
        \/ refresh_store(c)
        \/ \E answer \in Answers : dispatch(c, answer)
        \/ \E answer \in Answers : retry_dispatch(c, answer)
        \/ backoff_sleep(c)

ClientSpec == ClientInit /\ [][ClientNext]_vars

(* SizeSpec: lookup and getattr on files of every size, in a build that     *)
(* checks for integer overflow or in one that does not                      *)

SizeInit == FsInit /\ ClientStart(FreshLogin) /\ overflow_checks \in BOOLEAN

SizeNext ==
    \/ \E name \in Names, info \in SizedInfos : lookup(ROOT_INODE, name, info)
    \/ \E inode \in KernelInodes, info \in SizedInfos : getattr(inode, info)
    \/ next_request

SizeSpec == SizeInit /\ [][SizeNext]_vars

(* CallSpec: the calls of ClientSpec on a client that has just logged in,   *)
(* every step of a call that has been started being taken in the end: the   *)
(* runtime keeps polling the future, every sleep ends and every HTTP round  *)
(* trip returns with an answer or an error                                  *)

CallStep(c) ==
    \/ pace_lock(c)
    \/ pace_sleep(c)
    \/ pace_stamp(c)
    \/ token_check(c)
    \/ token_read(c)
    \/ \E answer \in RefreshAnswers : refresh_post(c, answer)
    \/ \E ok \in BOOLEAN : refresh_persist(c, ok)
    \/ refresh_store(c)
    \/ \E answer \in Answers : dispatch(c, answer)
    \/ \E answer \in Answers : retry_dispatch(c, answer)
    \/ backoff_sleep(c)

CallNext == \E c \in {1} : request_start(c) \/ CallStep(c)

CallSpec == Init /\ [][CallNext]_vars /\ WF_vars(\E c \in {1} : CallStep(c))

(* RefreshSpec: concurrent request() calls on a client that starts with a   *)
(* token about to expire, so that the calls refresh it side by side         *)

\* the record of a login made 30 seconds short of an hour ago
ExpiringLogin == [access_token |-> {0}, issued_at |-> {30 - DEFAULT_EXPIRES_IN},
                  expires_in |-> {DEFAULT_EXPIRES_IN}]

RefreshInit == FsInit /\ ClientStart(ExpiringLogin) /\ overflow_checks = FALSE

RefreshNext ==
    \E c \in Callers :
        \/ request_start(c)
        \/ pace_lock(c)
        \/ pace_sleep(c)
        \/ pace_stamp(c)
        \/ token_check(c)
        \/ token_read(c)
        \/ \E expires_in \in {{30}, {}} :
              refresh_post(c, [step |-> "ok", expires_in |-> expires_in])
        \/ \E ok \in BOOLEAN : refresh_persist(c, ok)
        \/ refresh_store(c)
        \/ dispatch(c, [sent |-> TRUE, status |-> 200])

RefreshSpec == RefreshInit /\ [][RefreshNext]_vars

(* PaceSpec: concurrent request() calls on a client with a token that stays *)
(* valid, every request answered with success, the clock also advanced by   *)
(* the environment                                                          *)

Ticks == {50, 100}

PaceNext ==
    \/ \E c \in Callers :
          \/ request_start(c)
          \/ pace_lock(c)
          \/ pace_sleep(c)
          \/ pace_stamp(c)
          \/ token_check(c)
          \/ token_read(c)
          \/ dispatch(c, [sent |-> TRUE, status |-> 200])
    \/ \E d \in Ticks : tick(d)

PaceSpec == Init /\ [][PaceNext]_vars

----------------------------------------------------------------------------
(* TableSpec: InodeTable called from concurrent threads.  Every DashMap     *)
(* call and the fetch_add are atomic; a method is the sequence of its calls *)

\* the calls are made on the children of the root and on their inodes
TablePaths == {Join(Root, name) : name \in Names}

TableInodes == FIRST_INODE..MaxTableInode

AllIdle == \A t \in Threads : pc[t] = "idle"

\* the last two inodes returned for a path
Returned(path) == IF path \in DOMAIN returned THEN returned[path] ELSE <<>>

Return(path, inode) ==
    returned' = MapInsert(returned, path,
                          IF Returned(path) = <<>>
                          THEN <<inode>>
                          ELSE <<Returned(path)[Len(Returned(path))], inode>>)

Goto(t, label, c, l) ==
    /\ pc' = [pc EXCEPT ![t] = label]
    /\ call' = [call EXCEPT ![t] = c]
    /\ local' = [local EXCEPT ![t] = l]

NoCall == [op |-> "none"]

\* goc_get without the check for an existing binding
goc_get_unchecked(t, path) ==
    /\ pc[t] = "idle"
    /\ next_inode + Cardinality({u \in Threads : pc[u] = "fetch_add"}) <= MaxTableInode
    /\ Goto(t, "fetch_add", [op |-> "get_or_create_inode", path |-> path], {})
    /\ UNCHANGED <<table_vars, driver_vars, hist_vars,
                   client_vars, job, overflow_checks, outstanding>>

\* get_or_create_inode, line 37: self.path_to_inode.get(&path_buf)
goc_get(t, path) ==
    /\ pc[t] = "idle"
    /\ LET found == MapGet(path_to_inode, path)
       IN IF found # {}
          THEN /\ Return(path, CHOOSE i \in found : TRUE)
               /\ Goto(t, "idle", NoCall, {})
          ELSE /\ next_inode + Cardinality({u \in Threads : pc[u] = "fetch_add"})
                     <= MaxTableInode
               /\ Goto(t, "fetch_add", [op |-> "get_or_create_inode", path |-> path], {})
               /\ UNCHANGED returned
    /\ UNCHANGED <<table_vars, driver_vars, forgot, allocated,
                   client_vars, job, overflow_checks, outstanding>>

\* line 42: self.next_inode.fetch_add(1, Ordering::Relaxed)
goc_fetch_add(t) ==
    /\ pc[t] = "fetch_add"
    /\ next_inode' = fetch_add(next_inode)
    /\ allocated' = Append(allocated, next_inode)
    /\ Goto(t, "insert_path", call[t], {next_inode})
    /\ UNCHANGED <<path_to_inode, inode_to_path, driver_vars, returned, forgot,
                   client_vars, job, overflow_checks, outstanding>>

\* line 43: self.path_to_inode.insert(path_buf.clone(), inode)
goc_insert_path(t) ==
    /\ pc[t] = "insert_path"
    /\ path_to_inode' = MapInsert(path_to_inode, call[t].path,
                                  CHOOSE i \in local[t] : TRUE)
    /\ Goto(t, "insert_inode", call[t], local[t])
    /\ UNCHANGED <<inode_to_path, next_inode, driver_vars, hist_vars,
                   client_vars, job, overflow_checks, outstanding>>

\* lines 44-46: self.inode_to_path.insert(inode, path_buf); inode
goc_insert_inode(t) ==
    /\ pc[t] = "insert_inode"
    /\ LET inode == CHOOSE i \in local[t] : TRUE
       IN /\ inode_to_path' = MapInsert(inode_to_path, inode, call[t].path)
          /\ Return(call[t].path, inode)
    /\ Goto(t, "idle", NoCall, {})
    /\ UNCHANGED <<path_to_inode, next_inode, driver_vars, forgot, allocated,
                   client_vars, job, overflow_checks, outstanding>>

Forget ==
    /\ forgot' = TRUE
    /\ returned' = EmptyMap

\* remove, line 61: self.inode_to_path.remove(&inode)
remove_inode(t, inode) ==
    /\ pc[t] = "idle"
    /\ Forget
    /\ LET found == MapGet(inode_to_path, inode)
       IN /\ inode_to_path' = MapRemove(inode_to_path, inode)
          /\ IF found # {}
             THEN Goto(t, "remove_its_path", [op |-> "remove", inode |-> inode], found)
             ELSE Goto(t, "idle", NoCall, {})
    /\ UNCHANGED <<path_to_inode, next_inode, driver_vars, allocated,
                   client_vars, job, overflow_checks, outstanding>>

\* line 62: self.path_to_inode.remove(&path)
remove_its_path(t) ==
    /\ pc[t] = "remove_its_path"
    /\ path_to_inode' = MapRemove(path_to_inode, CHOOSE p \in local[t] : TRUE)
    /\ Goto(t, "idle", NoCall, {})
    /\ UNCHANGED <<inode_to_path, next_inode, driver_vars, hist_vars,
                   client_vars, job, overflow_checks, outstanding>>

\* remove_path, line 68: self.path_to_inode.remove(path)
remove_path(t, path) ==
    /\ pc[t] = "idle"
    /\ Forget
    /\ LET found == MapGet(path_to_inode, path)
       IN /\ path_to_inode' = MapRemove(path_to_inode, path)
          /\ IF found # {}
             THEN Goto(t, "remove_its_inode", [op |-> "remove_path", path |-> path], found)
             ELSE Goto(t, "idle", NoCall, {})
    /\ UNCHANGED <<inode_to_path, next_inode, driver_vars, allocated,
                   client_vars, job, overflow_checks, outstanding>>

\* line 69: self.inode_to_path.remove(&inode)
remove_its_inode(t) ==
    /\ pc[t] = "remove_its_inode"
    /\ inode_to_path' = MapRemove(inode_to_path, CHOOSE i \in local[t] : TRUE)
    /\ Goto(t, "idle", NoCall, {})
    /\ UNCHANGED <<path_to_inode, next_inode, driver_vars, hist_vars,
                   client_vars, job, overflow_checks, outstanding>>

\* a thread enters a method
TableCall(t, paths, inodes) ==
    \/ \E path \in paths : goc_get(t, path)
    \/ \E inode \in inodes : remove_inode(t, inode)
    \/ \E path \in paths : remove_path(t, path)

\* a thread goes on in the method it is in
TableStep(t) ==
    \/ goc_fetch_add(t)
    \/ goc_insert_path(t)
    \/ goc_insert_inode(t)
    \/ remove_its_path(t)
    \/ remove_its_inode(t)

TableNext == \E t \in Threads : TableCall(t, TablePaths, TableInodes) \/ TableStep(t)

TableSpec == Init /\ [][TableNext]_vars

\* SeqSpec: a method is entered only when no other call is in progress; the
\* calls are made on the root too
SeqNext ==
    \E t \in Threads :
        \/ AllIdle /\ TableCall(t, {Root} \cup TablePaths, ROOT_INODE..MaxTableInode)
        \/ TableStep(t)

SeqSpec == Init /\ [][SeqNext]_vars

----------------------------------------------------------------------------
(* Claims about the InodeTable *)

\* the inodes bound to a path in the reverse map
InodesOf(path) == {i \in DOMAIN inode_to_path : inode_to_path[i] = path}

AllSame(seq) == \A k \in DOMAIN seq : seq[k] = seq[1]

\* C1 (TableSpec, as claimed): while no remove / remove_path call has been
\* made, all get_or_create_inode calls on one path return the same inode and
\* at most one inode is bound to the path in the reverse map.
C1_RacingCreatorsAgree ==
    ~forgot => \A path \in TablePaths :
                  /\ AllSame(Returned(path))
                  /\ Cardinality(InodesOf(path)) <= 1

\* C2 (TableSpec, as claimed): when no InodeTable call is in progress the two
\* maps are exact inverses of each other.
C2_QuiescentInverse ==
    AllIdle =>
        /\ \A path \in DOMAIN path_to_inode :
              get_path(Table, path_to_inode[path]) = {path}
        /\ \A inode \in DOMAIN inode_to_path :
              get_inode(Table, inode_to_path[inode]) = {inode}

\* C3 (SeqSpec): with one call running at a time, the calls of
\* get_or_create_inode(p) made since the last remove / remove_path all
\* returned the same inode i, and get_path(i) = p and get_inode(p) = i.
C3_SequentialIdempotent ==
    \A path \in DOMAIN returned :
        LET inode == returned[path][Len(returned[path])]
        IN /\ AllSame(returned[path])
           /\ get_path(Table, inode) = {path}
           /\ get_inode(Table, path) = {inode}

\* C3 witness: two calls on one path have returned with no removal between
\* them, and the inode they returned is not the first one allocated.
C3_Witness ==
    \E path \in DOMAIN returned :
        /\ Len(returned[path]) = 2
        /\ returned[path][2] > 2
        /\ AllIdle

\* C5 (TableSpec): every inode handed out by fetch_add is at least 2 and
\* greater than every inode handed out before it.
C5_AllocationMonotonic ==
    \A k \in DOMAIN allocated :
        /\ allocated[k] >= 2
        /\ \A j \in 1..(k - 1) : allocated[j] < allocated[k]

\* C5 witness: two inodes were allocated and the first one's binding has been
\* removed again.
C5_Witness ==
    /\ AllIdle
    /\ forgot
    /\ Len(allocated) >= 2
    /\ allocated[1] \notin DOMAIN inode_to_path
    /\ allocated[2] \in DOMAIN inode_to_path

----------------------------------------------------------------------------
(* Claims about the kernel callbacks *)

\* the callback of this step failed at get_file_info
MetaFailed(calls) == calls # <<>> /\ ~calls[1].result.ok

\* the callback of this step got a file from get_file_info and no body from
\* download_file
DownloadFailed(calls) == Len(calls) = 2 /\ ~calls[2].result.ok

\* the callback of this step got a folder from get_file_info
GotFolder(calls) == calls # <<>> /\ calls[1].result.ok /\ calls[1].result.is_folder

\* a step keeps every binding of the two maps
KeepsBindings ==
    /\ \A path \in DOMAIN path_to_inode :
          path \in DOMAIN path_to_inode' /\ path_to_inode'[path] = path_to_inode[path]
    /\ \A inode \in DOMAIN inode_to_path :
          inode \in DOMAIN inode_to_path' /\ inode_to_path'[inode] = inode_to_path[inode]

\* C4 (Spec): "/" is bound to inode 1 and inode 1 to "/" in every reachable
\* state, and no callback removes or changes a binding.
C4_RootPinned ==
    /\ [](get_inode(Table, <<>>) = {1} /\ get_path(Table, 1) = {<<>>})
    /\ [][KeepsBindings]_vars

\* C4 witness: a release has been answered with two inodes bound besides the
\* root.
C4_Witness ==
    /\ request.op = "release"
    /\ Cardinality(DOMAIN inode_to_path) = 3
    /\ get_path(Table, 1) = {<<>>}

\* C6 (Spec): a lookup whose parent inode is unknown or whose get_file_info
\* fails replies ENOENT and leaves the inode table as it was.
C6_FailedLookupAllocatesNothing ==
    [][(request'.op = "lookup" /\ (api_calls' = <<>> \/ MetaFailed(api_calls')))
          => (reply' = ReplyError(ENOENT) /\ UNCHANGED table_vars)]_vars

\* C6 witness: a lookup of a child of a known parent failed at get_file_info,
\* was answered ENOENT, and the child's path has no inode.
C6_Witness ==
    /\ request.op = "lookup"
    /\ MetaFailed(api_calls)
    /\ reply = ReplyError(ENOENT)
    /\ get_inode(Table, api_calls[1].path) = {}
    /\ next_inode > 2

\* C7 (Spec, as claimed): an open whose get_file_info succeeds and whose
\* download_file fails replies EIO and stores no buffer.
C7_DownloadFailureRepliesEIO ==
    [][(request'.op = "open" /\ DownloadFailed(api_calls'))
          => (reply' = ReplyError(EIO) /\ open_files' = open_files)]_vars

\* C8 (HandleSpec): a read on an inode with a buffer of n bytes replies data:
\* none when offset >= n, else the bytes offset .. min(offset + size, n) - 1
\* of the buffer.
C8_ReadSlice ==
    (request.op = "read" /\ request.inode \in DOMAIN open_files) =>
        LET content == open_files[request.inode]
            n == Len(content)
            last == Min(request.offset + request.size, n)
        IN /\ reply.kind = "data"
           /\ IF request.offset >= n
              THEN reply.data = <<>>
              ELSE /\ Len(reply.data) = last - request.offset
                   /\ \A k \in 1..Len(reply.data) :
                         reply.data[k] = content[request.offset + k]

\* C8 witness: a read inside the buffer that the end of the buffer cut short.
C8_Witness ==
    /\ request.op = "read"
    /\ request.inode \in DOMAIN open_files
    /\ request.offset = 1
    /\ request.offset + request.size > Len(open_files[request.inode])
    /\ reply.kind = "data"
    /\ Len(reply.data) = 1

\* C9 (HandleSpec): a read on an inode without a buffer replies EBADF, and an
\* open of a folder replies success and stores no buffer.
C9_ReadWithoutBuffer ==
    /\ []((request.op = "read" /\ request.inode \notin DOMAIN open_files)
             => reply = ReplyError(EBADF))
    /\ [][(request'.op = "open" /\ GotFolder(api_calls'))
             => (reply' = ReplyOpened(request'.inode) /\ open_files' = open_files)]_vars

\* C9 witness: a read on an inode the table knows and no buffer exists for
\* was answered EBADF.
C9_Witness ==
    /\ request.op = "read"
    /\ get_path(Table, request.inode) # {}
    /\ request.inode \notin DOMAIN open_files
    /\ open_files # EmptyMap
    /\ reply = ReplyError(EBADF)

\* C10 (HandleSpec): release replies success, leaves no buffer for its inode
\* and leaves the buffers of all other inodes as they were.
C10_ReleaseRemovesOne ==
    [][request'.op = "release"
          => /\ reply' = ReplyOk
             /\ request'.inode \notin DOMAIN open_files'
             /\ DOMAIN open_files' = DOMAIN open_files \ {request'.inode}
             /\ \A inode \in DOMAIN open_files' :
                   open_files'[inode] = open_files[inode]]_vars

\* C10 witness: a release was answered success while another inode's buffer
\* is still held.
C10_Witness ==
    /\ request.op = "release"
    /\ reply = ReplyOk
    /\ \E inode \in DOMAIN open_files :
          inode # request.inode /\ Len(open_files[inode]) = MaxLen

----------------------------------------------------------------------------
(* Claims about the lifetime of a handle *)

\* C11 (LifeSpec, as claimed): while at least one open of an inode that
\* stored a buffer has not been released, a read on that inode is answered
\* with data, not with EBADF, also when another handle on the same inode was
\* opened and released in between.
C11_BufferLivesUntilOwnRelease ==
    (request.op = "read" /\ outstanding[request.inode] > 0)
        => (reply.kind = "data" /\ reply # ReplyError(EBADF))

----------------------------------------------------------------------------
(* Claims about readdir *)

\* the names of the list readdir synthesizes from a remote listing
ListedNames(listing) ==
    <<".", "..">> \o [k \in 1..Len(listing) |-> listing[k].name]

\* C12 (Spec, as claimed): a successful readdir(inode, offset = k) emits the
\* entries of the synthesized list from position k on, each with the offset
\* of the entry after it, as many as the reply buffer takes; at k = length of
\* the list the successful reply is empty.
C12_ReaddirResumesAtOffset ==
    (request.op = "readdir" /\ reply.kind = "directory") =>
        LET names == ListedNames(api_calls[1].result.entries)
            k == request.offset
        IN /\ Len(reply.entries) = Min(Max(Len(names) - k, 0), request.room)
           /\ \A j \in DOMAIN reply.entries :
                 /\ reply.entries[j].offset = k + j
                 /\ k + j <= Len(names)
                 /\ reply.entries[j].name = names[k + j]

\* C13 (Spec): a successful readdir(inode, 0) lists "." with the inode itself,
\* ".." with the inode of the parent path (the inode itself for the root),
\* then one entry per remote child, in order, a directory or a regular file
\* by the child's folder flag, with the inode the table binds to the child's
\* path; the list is cut only by the room of the reply buffer.
C13_ReaddirListsChildren ==
    (request.op = "readdir" /\ request.offset = 0 /\ reply.kind = "directory") =>
        LET listing == api_calls[1].result.entries
            path == api_calls[1].path
            e == reply.entries
        IN /\ Len(e) = Min(Len(listing) + 2, request.room)
           /\ Len(e) >= 1 =>
                 /\ e[1].name = "." /\ e[1].kind = "Directory"
                 /\ e[1].ino = request.inode
                 /\ get_path(Table, request.inode) = {path}
           /\ Len(e) >= 2 =>
                 /\ e[2].name = ".." /\ e[2].kind = "Directory"
                 /\ IF path = <<>>
                    THEN e[2].ino = request.inode
                    ELSE get_inode(Table, SubSeq(path, 1, Len(path) - 1)) = {e[2].ino}
           /\ \A k \in 3..Len(e) :
                 /\ e[k].name = listing[k - 2].name
                 /\ e[k].kind = IF listing[k - 2].is_folder THEN "Directory"
                                                           ELSE "RegularFile"
                 /\ get_inode(Table, path \o <<listing[k - 2].name>>) = {e[k].ino}

\* C13 witness: a readdir at offset 0 of a directory below the root listed
\* the directory, the root as its parent and a regular file, a new inode
\* bound to the child's path.
C13_Witness ==
    /\ request.op = "readdir"
    /\ request.offset = 0
    /\ request.inode # 1
    /\ reply.kind = "directory"
    /\ Len(reply.entries) = 3
    /\ reply.entries[2].ino = 1
    /\ reply.entries[3].kind = "RegularFile"
    /\ reply.entries[3].ino = 3

----------------------------------------------------------------------------
(* Claims about the API client *)

\* the callers between the check of last_call and its stamp
Pacing == {c \in Callers : caller[c].stage \in {"pace_sleep", "pace_stamp"}}

\* C14 (PaceSpec): at most one caller is between the check of last_call and
\* its stamp, two consecutive stamps are at least min_interval apart, and the
\* N stamps of N calls span at least (N - 1) * min_interval.
C14_CallsPaced ==
    /\ Cardinality(Pacing) <= 1
    /\ Pacing = last_call_lock
    /\ \A k \in 2..Len(stamps) : stamps[k] - stamps[k - 1] >= 100
    /\ stamps # <<>> =>
          stamps[Len(stamps)] - stamps[1] >= (Len(stamps) - 1) * 100

\* C14 witness: a second call found the first one's stamp younger than
\* min_interval, slept, and stamped exactly min_interval after it, while
\* the first call has not finished yet.
C14_Witness ==
    /\ Len(stamps) = 2
    /\ stamps[1] > 0
    /\ stamps[2] = stamps[1] + 100
    /\ \E c \in Callers : caller[c].stage = "dispatch"

\* the token is absent or expires within 60 seconds; a token of unknown
\* expiry is counted as expiring
AbsentOrExpiring ==
    \/ access_token = {}
    \/ token_expires_at = {}
    \/ \E e \in token_expires_at : e - now < 60 * 1000

\* the caller leaves the expiry check that precedes its first dispatch
FirstCheck(c) ==
    /\ caller[c].stage = "token_check"
    /\ caller[c].token_ret = "dispatch"
    /\ caller'[c].stage # "token_check"

\* C15 (ClientSpec, as claimed): whatever the TokenState, the call enters
\* refresh_token before its first dispatch if the token is absent or expires
\* within 60 seconds, and goes on without a refresh otherwise.
C15_RefreshBeforeFirstDispatch ==
    [][\A c \in Callers :
          FirstCheck(c) => (caller'[c].stage = "refresh_post" <=> AbsentOrExpiring)]_vars

\* the requests a call has sent and the refreshes it has made, in order
Dispatched(c) == SelectSeq(trace[c].log, LAMBDA e : e.ev = "dispatch")

Refreshed(c) == SelectSeq(trace[c].log, LAMBDA e : e.ev = "refresh")

\* C16 (ClientSpec, as claimed): a call that found its token present and not
\* expiring (it sent its first request without a refresh), got 401 for it and
\* 200 for the request sent again, returns that success and has made exactly
\* one refresh, whatever expires_in the token response carried.
C16_OneRefreshOn401 ==
    \A c \in Callers :
        (/\ caller[c].stage = "done"
         /\ trace[c].log # <<>>
         /\ trace[c].log[1].ev = "dispatch"
         /\ Len(Dispatched(c)) = 2
         /\ Dispatched(c)[1].sent /\ Dispatched(c)[1].status = 401
         /\ Dispatched(c)[2].sent /\ Dispatched(c)[2].status = 200)
        => /\ trace[c].result = [kind |-> "ok", status |-> 200]
           /\ Len(Refreshed(c)) = 1

\* the event is a request sent first (retry = FALSE) or sent again after a 401
IsDispatch(event, retry) == event.ev = "dispatch" /\ event.retry = retry

\* C17 (ClientSpec): a request answered 401 is sent again exactly once, with
\* the token the refresh stored, once the refreshes between the two have
\* succeeded; the request sent again is the last thing the call does, so a
\* non-success answer to it (401 and 429 included) makes the call return an
\* error with no further dispatch, refresh or backoff sleep.
C17_RetryOnceAfter401 ==
    \A c \in Callers :
        LET log == trace[c].log
        IN \A k \in DOMAIN log :
              /\ IsDispatch(log[k], TRUE) =>
                    /\ k = Len(log)
                    /\ caller[c].stage = "done"
                    /\ log[k].token = access_token
                    /\ \E j \in 1..(k - 1) :
                          /\ IsDispatch(log[j], FALSE)
                          /\ log[j].status = 401
                          /\ log[j].token # log[k].token
                          /\ j + 1 < k
                          /\ \A i \in (j + 1)..(k - 1) :
                                log[i] = [ev |-> "refresh", ok |-> TRUE]
                    /\ (log[k].status < 200 \/ log[k].status > 299)
                          => trace[c].result.kind = "err"
              /\ (/\ IsDispatch(log[k], FALSE)
                  /\ log[k].status = 401
                  /\ caller[c].stage = "done"
                  /\ \A i \in (k + 1)..Len(log) :
                        log[i] # [ev |-> "refresh", ok |-> FALSE])
                    => IsDispatch(log[Len(log)], TRUE)

\* C17 witness: after a 429 and its backoff sleep the request was answered
\* 401, the token was refreshed, and the request sent again was answered 429
\* with retries left: the call returned an error.
C17_Witness ==
    \E c \in Callers :
        LET log == trace[c].log
        IN /\ caller[c].stage = "done"
           /\ Len(log) = 5
           /\ log[1].ev = "dispatch" /\ log[1].status = 429
           /\ log[2].ev = "sleep"
           /\ log[3].ev = "dispatch" /\ log[3].status = 401
           /\ log[4].ev = "refresh"
           /\ IsDispatch(log[5], TRUE) /\ log[5].status = 429
           /\ trace[c].result.kind = "err"

\* the backoff sleeps of a call, and its requests and sleeps in order
Slept(c) == SelectSeq(trace[c].log, LAMBDA e : e.ev = "sleep")

Attempts(c) == SelectSeq(trace[c].log, LAMBDA e : e.ev \in {"dispatch", "sleep"})

\* every request of the call but the last one was answered 429
RateLimitedSoFar(c) ==
    /\ Dispatched(c) # <<>>
    /\ \A k \in 1..(Len(Dispatched(c)) - 1) :
          Dispatched(c)[k].sent /\ Dispatched(c)[k].status = 429

\* C18 (ClientSpec): while every request is answered 429 the call sleeps
\* 500, 1000, 2000, 4000, 8000 ms, one sleep after each request, and sends
\* the request again; the sixth 429 makes it return an error with that
\* status; a success after any number of 429s is returned as the result.
C18_BackoffOn429 ==
    \A c \in Callers :
        RateLimitedSoFar(c) =>
            LET sent == Dispatched(c)
                last == sent[Len(sent)]
            IN /\ Len(sent) <= 6
               /\ \A k \in DOMAIN Slept(c) : Slept(c)[k].ms = 500 * 2^(k - 1)
               /\ \A k \in DOMAIN Attempts(c) :
                     Attempts(c)[k].ev = IF k % 2 = 1 THEN "dispatch" ELSE "sleep"
               /\ (caller[c].stage = "done" /\ last.sent /\ last.status = 429)
                     => /\ Len(sent) = 6
                        /\ Len(Slept(c)) = 5
                        /\ trace[c].result.kind = "err"
                        /\ trace[c].result.status = 429
               /\ (caller[c].stage = "done" /\ last.sent /\ last.status = 200)
                     => /\ Len(Slept(c)) = Len(sent) - 1
                        /\ trace[c].result = [kind |-> "ok", status |-> 200]

\* C18 witness: six requests were answered 429, the call slept 15.5 s in all
\* and returned the error.
C18_Witness ==
    \E c \in Callers :
        /\ caller[c].stage = "done"
        /\ Len(Dispatched(c)) = 6
        /\ \A k \in 1..6 : Dispatched(c)[k].status = 429
        /\ Len(Slept(c)) = 5
        /\ now >= 15500
        /\ trace[c].result.kind = "err"

\* C19 (ClientSpec, as claimed): a request answered with a non-success
\* status other than 401 and 429 is the last thing the call does, and the
\* call returns an error that carries that status.
C19_OtherStatusEndsCall ==
    \A c \in Callers :
        \A k \in DOMAIN trace[c].log :
            LET event == trace[c].log[k]
            IN (/\ event.ev = "dispatch"
                /\ event.sent
                /\ event.status < 200 \/ event.status > 299
                /\ event.status \notin {401, 429})
               => /\ k = Len(trace[c].log)
                  /\ caller[c].stage = "done"
                  /\ trace[c].result.kind = "err"
                  /\ trace[c].result.status = event.status

\* the caller is inside refresh_token, the token record not yet written
InRefresh(c) == caller[c].stage \in {"refresh_post", "refresh_persist"}

\* C20 (ClientSpec): a refresh that fails (a credential missing, the token
\* exchange refused, no access_token in its response, the token record not
\* written) is the last thing the call does, the call returns an error, and
\* no step of the refresh up to the failure has changed the token or the
\* expiry held in memory.
C20_FailedRefreshChangesNothing ==
    /\ [][\A c \in Callers :
            InRefresh(c) =>
                /\ access_token' = access_token
                /\ token_expires_at' = token_expires_at
                /\ caller'[c].stage = "done" => trace'[c].result.kind = "err"]_vars
    /\ [](\A c \in Callers :
            \A k \in DOMAIN trace[c].log :
                trace[c].log[k] = [ev |-> "refresh", ok |-> FALSE]
                    => /\ k = Len(trace[c].log)
                       /\ caller[c].stage = "done"
                       /\ trace[c].result.kind = "err")

\* C20 witness: after a 401 the provider issued a new token, the write of
\* the token record failed, and the call returned an error: the token of the
\* login and its expiry are still in memory and in the record.
C20_Witness ==
    \E c \in Callers :
        /\ caller[c].stage = "done"
        /\ Len(trace[c].log) = 2
        /\ trace[c].log[1].ev = "dispatch" /\ trace[c].log[1].status = 401
        /\ trace[c].log[2] = [ev |-> "refresh", ok |-> FALSE]
        /\ trace[c].result = [kind |-> "err", why |-> "write", status |-> 0]
        /\ minted = 1
        /\ access_token = {0}
        /\ token_expires_at = {3600000}
        /\ token_file.access_token = {0}

----------------------------------------------------------------------------
(* Claims about the callbacks as a whole *)

\* C21 (LiveSpec): every callback the kernel has entered is answered with a
\* reply, success or an error code, also when its task panicked; a reply once
\* sent is not followed by a second one for the same request; the callback
\* then returns and the driver is ready for the next request.
C21_EveryCallbackReplies ==
    /\ (job # NoJob) ~> (reply # NoReply)
    /\ (reply # NoReply) ~> (job = NoJob /\ request = NoRequest)
    /\ [][reply # NoReply => reply' \in {reply, NoReply}]_vars
    /\ [][job # NoJob /\ job' = NoJob => reply # NoReply]_vars

\* C21 witness: a read whose task panicked has been answered with an error
\* while a buffer is held, and the callback has returned.
C21_Witness ==
    /\ job = NoJob
    /\ request.op = "read"
    /\ reply = ReplyError(EBADF)
    /\ request.inode \in DOMAIN open_files

----------------------------------------------------------------------------
(* Claims about the client under concurrent calls *)

\* the step sends the request of caller c: a first attempt, the request sent
\* again after a 401, or the request sent again after the sleep of a 429
Sends(c) ==
    /\ caller[c].stage \in {"dispatch", "retry_dispatch"}
    /\ caller'[c].stage # caller[c].stage

\* C22 (PaceSpec, as claimed): a request is sent only when at least
\* min_interval has passed since the request sent before it, whichever call
\* sent that one.
C22_DispatchesPaced ==
    [][\A c \in Callers :
          Sends(c) => \A last \in last_sent : now - last >= min_interval]_vars

\* C23 (RefreshSpec, as claimed): whenever no call is inside refresh_token,
\* the access token of the persisted token record is the access token held
\* in memory, however many refreshes have succeeded and however they ran.
C23_RecordMatchesMemory ==
    (\A c \in Callers : ~Refreshing(c)) => token_file.access_token = access_token

\* the step is the write of lines 308-312 by caller c
Stores(c) ==
    /\ caller[c].stage = "refresh_store"
    /\ caller'[c].stage # "refresh_store"

\* C24 (RefreshSpec): the token and the expiry held in memory change only in
\* the store of a refresh, and that store writes both from its own token
\* response: the token it minted and the instant of the store plus its
\* expires_in.  So every TokenState a reader can find was written whole by
\* one refresh, and it is the one of the refresh that stored last.
C24_TokenStateWrittenWhole ==
    /\ [][\A c \in Callers :
             Stores(c) => \E new \in caller[c].fresh :
                 /\ access_token' = {new.access_token}
                 /\ token_expires_at' = {now + from_secs(new.expires_in)}]_vars
    /\ [][access_token' # access_token \/ token_expires_at' # token_expires_at
             => \E c \in Callers : Stores(c)]_vars

\* C24 witness: two refreshes ran side by side, the one that minted the
\* earlier token stored last, and memory holds its token with its expiry.
C24_Witness ==
    /\ \A c \in Callers : caller[c].stage = "done"
    /\ minted >= 2
    /\ access_token = {1}
    /\ token_file.access_token = {2}
    /\ token_expires_at = {100 + from_secs(30)}

----------------------------------------------------------------------------
(* Claims about the inodes the table and the driver hand out *)

\* C25 (TableSpec, as claimed): while no remove / remove_path call has been
\* made, every inode a get_or_create_inode(p) call has returned resolves to
\* p through get_path, from the return on, however the calls interleave.
C25_ReturnedInodeResolves ==
    ~forgot => \A path \in DOMAIN returned :
                  \A k \in DOMAIN returned[path] :
                      get_path(Table, returned[path][k]) = {path}

\* the inode the table binds to the child `name` of the directory `parent`
ChildInode(parent, name) ==
    UNION {get_inode(Table, Join(parent_path, name)) :
              parent_path \in get_path(Table, parent)}

\* C26 (Spec): the inode a successful lookup(parent, name) reports and the
\* inode readdir(parent) reports for the entry of that name are both the one
\* inode the table binds to the path parent-path/name; that binding, once
\* made, never changes, so the two callbacks report the same inode in either
\* order; and getattr on an inode asks the remote for the path bound to it.
C26_OneInodePerChild ==
    /\ [](request.op = "lookup" /\ reply.kind = "entry"
            => {reply.attr.ino} = ChildInode(request.inode, request.name))
    /\ [](request.op = "readdir" /\ reply.kind = "directory"
            => \A k \in DOMAIN reply.entries :
                  LET entry == reply.entries[k]
                  IN entry.name \notin {".", ".."}
                        => {entry.ino} = ChildInode(request.inode, entry.name))
    /\ [](request.op = "getattr" /\ api_calls # <<>>
            => /\ get_path(Table, request.inode) = {api_calls[1].path}
               /\ get_inode(Table, api_calls[1].path) = {request.inode})
    /\ [][\A path \in DOMAIN path_to_inode :
             get_inode(Table, path) = MapGet(path_to_inode', path)]_vars

\* C26 witness: readdir of the root reports for its second child an inode
\* handed out before that of its first child, by an earlier callback.
C26_Witness ==
    /\ request.op = "readdir"
    /\ request.inode = ROOT_INODE
    /\ reply.kind = "directory"
    /\ Len(reply.entries) = 4
    /\ reply.entries[4].ino < reply.entries[3].ino

----------------------------------------------------------------------------
(* Claims about the length of a call *)

\* the caller is inside request()
InCall(c) == caller[c].stage \notin {"idle", "done"}

\* the requests the call has sent in the loop, and those sent after a 401
SentInLoop(c) == SelectSeq(trace[c].log, LAMBDA e : IsDispatch(e, FALSE))

SentAgain(c) == SelectSeq(trace[c].log, LAMBDA e : IsDispatch(e, TRUE))

\* C27 (CallSpec): every call that has been started returns, and at no moment
\* has it sent more than RETRIES + 1 requests in the loop, sent more than
\* one request again after a 401, or slept for backoff more than RETRIES
\* times.
C27_CallTerminatesBounded ==
    /\ \A c \in Callers : InCall(c) ~> (caller[c].stage = "done")
    /\ [](\A c \in Callers :
             /\ Len(SentInLoop(c)) <= RETRIES + 1
             /\ Len(SentAgain(c)) <= 1
             /\ Len(Slept(c)) <= RETRIES)

\* C27 witness: a call has returned after six requests sent in the loop, five
\* backoff sleeps and one request sent again after a 401.
C27_Witness ==
    \E c \in Callers :
        /\ caller[c].stage = "done"
        /\ Len(SentInLoop(c)) = RETRIES + 1
        /\ Len(SentAgain(c)) = 1
        /\ Len(Slept(c)) = RETRIES

----------------------------------------------------------------------------
(* Claims about the attributes *)

\* the least number of blocks of BLOCK_SIZE bytes that hold `size` bytes
CeilBlocks(size) ==
    CHOOSE b \in 0..(size \div BLOCK_SIZE + 1) :
        b * BLOCK_SIZE >= size /\ (b - 1) * BLOCK_SIZE < size

\* C28 (SizeSpec, as claimed): for a file of any size the remote reports,
\* lookup and getattr answer with attributes whose block count is the size
\* divided by 512 and rounded up.
C28_BlocksRoundUp ==
    (/\ request.op \in {"lookup", "getattr"}
     /\ api_calls # <<>>
     /\ api_calls[1].result.ok)
    => /\ reply.kind \in {"entry", "attr"}
       /\ reply.attr.size = api_calls[1].result.size
       /\ reply.attr.blocks = CeilBlocks(api_calls[1].result.size)

====
